---- MODULE Spec2Model ----
(***************************************************************************)
(* Failover control loop of the USB VPN router (usb_vpn_router/monitor.py) *)
(* together with the operator-facing routing toggles (usb_vpn_router/      *)
(* cli.py) and the installer's NAT setup (usb_vpn_router/core.py).         *)
(*                                                                         *)
(* The kernel state the program mutates is modelled directly: the default  *)
(* route of policy table usb_vpn and the POSTROUTING masquerade rules for  *)
(* the client subnet.  Every run_command call of VPNMonitor.switch_to_* is *)
(* one atomic step, so that the operator's commands (a separate process)   *)
(* interleave with it command by command.                                  *)
(***************************************************************************)
EXTENDS Integers, FiniteSets, Sequences, TLC

\* Bound on identical masquerade rules on one interface (iptables itself
\* has no bound; an append at the bound is taken to fail).
MaxRules == 2

\* Bound on the number of SIGTERM/SIGINT deliveries.
MaxSignals == 1

tailscale_interface == "tailscale0"

openvpn_interface == "tun0"

wan_interface == "wlan0"

Backends == {tailscale_interface, openvpn_interface}

Ifaces == {tailscale_interface, openvpn_interface, wan_interface}

\* Exit statuses of a command run through run_command.
RC == {0, 1}

VARIABLES
  route,         \* default route of table usb_vpn: [dev, via]
  nat,           \* nat[i]: number of "-o i -s usb_network -j MASQUERADE" rules
  running,       \* VPNMonitor.running
  signals,       \* signals delivered so far
  mpc,           \* position of the monitor process
  current_vpn,   \* monitor_loop local
  read_rc,       \* exit status of the last routing-table query
  tailscale_up,  \* monitor_loop local
  openvpn_up,    \* monitor_loop local
  target,        \* the switch the current cycle invoked ("none" if none)
  gateway_match, \* switch_to_tailscale local
  sw_result,     \* outcome of the cycle's switch: "init" before the first
                 \*   cycle, "none" no switch, "pending", "ok", "fail"
  cycle_log,     \* levels logged during the current cycle
  opc,           \* position of the operator's usb-router-tailscale command
  pre_route,     \* history: route when the cycle's switch was invoked
  pre_nat,       \* history: nat when the cycle's switch was invoked
  op_during,     \* history: an operator command ran during the cycle's switch
  last_sw,       \* history: target of the last successful switch, "none" once
                 \*          anything else has touched the routing state since
  repeat,        \* history: the cycle's switch repeats last_sw
  stable,        \* history: this cycle's probes repeat the previous cycle's,
                 \*          and the previous cycle ended in its steady state
  retry,         \* history: this cycle's probes repeat the previous cycle's,
                 \*          and the previous cycle's switch returned False
  rewritten,     \* history: the masquerade rules are as a completed operator
                 \*          command left them between two cycles, and the
                 \*          monitor has invoked no switch since
  call           \* a call of a read-side operation from outside the loop:
                 \*   its inputs and, once it has returned, its result

vars == <<route, nat, running, signals, mpc, current_vpn, read_rc, tailscale_up,
          openvpn_up, target, gateway_match, sw_result, cycle_log, opc,
          pre_route, pre_nat, op_during, last_sw, repeat, stable, retry,
          rewritten, call>>

kernel == <<route, nat>>

locals == <<current_vpn, read_rc, tailscale_up, openvpn_up, target,
            gateway_match, sw_result, cycle_log>>

history == <<pre_route, pre_nat, op_during, last_sw, repeat, stable, retry,
             rewritten>>

----------------------------------------------------------------------------
(* Kernel state: policy table and NAT rules                                *)

NoRoute == [dev |-> "none", via |-> FALSE]

Routes == {NoRoute} \cup [dev : Backends, via : BOOLEAN]

NoNat == [i \in Ifaces |-> 0]

\* No call of a read-side operation from outside the loop is under way.
NoCall == [fn |-> "none"]

\* iptables -t nat -C POSTROUTING -o i -s usb_network -j MASQUERADE
NatCheck(n, i) == n[i] > 0

\* iptables -t nat -A POSTROUTING -o i -s usb_network -j MASQUERADE
NatAppend(n, i) == [n EXCEPT ![i] = @ + 1]

\* iptables -t nat -D POSTROUTING -o i -s usb_network -j MASQUERADE
\* (removes one matching rule)
NatDelete(n, i) == [n EXCEPT ![i] = @ - 1]

\* Number of masquerade rules for the client subnet, on any interface.
NatTotal(n) == n[tailscale_interface] + n[openvpn_interface] + n[wan_interface]

\* The interface names that occur in the output of
\* "ip route show table usb_vpn".
RouteShow(r) == IF r.dev = "none" THEN {} ELSE {r.dev}

----------------------------------------------------------------------------
(* Installer: NAT rules after USBRouterCore.setup_nat_and_routing          *)

\* _setup_iptables_rules flushes POSTROUTING, then _setup_vpn_routing
\* appends one rule per VPN interface.
core_setup_vpn_routing ==
  NatAppend(NatAppend(NoNat, tailscale_interface), openvpn_interface)

\* _setup_iptables_rules flushes POSTROUTING, then _setup_local_routing
\* appends one rule for the WAN interface.
core_setup_local_routing == NatAppend(NoNat, wan_interface)

----------------------------------------------------------------------------
(* VPNMonitor: pure parts                                                  *)

\* The interface names that occur in the output of
\* "ip route show table usb_vpn" for a table whose default route egresses
\* through def ("none": no default route) and whose other routes egress
\* through the interfaces in others.
TableShow(def, others) == (IF def = "none" THEN {} ELSE {def}) \cup others

\* A get_current_vpn that reads the output whatever the exit status.
get_current_vpn_ignores_rc(rc, devs) ==
  IF tailscale_interface \in devs THEN "tailscale"
  ELSE IF openvpn_interface \in devs THEN "openvpn"
  ELSE "none"

\* get_current_vpn: rc and the interfaces named in the command's output.
get_current_vpn(rc, devs) ==
  IF rc = 0 /\ devs # {}
  THEN IF tailscale_interface \in devs THEN "tailscale"
       ELSE IF openvpn_interface \in devs THEN "openvpn"
       ELSE "none"
  ELSE "none"

\* What the probe of one interface meets: the outcome of "ip link show"
\* (check_interface_exists), of "ip addr show" (check=True) and of ping
\* (check=False).  A command the probe does not reach has no outcome:
\* "skipped".  The output of "ip addr show" has an "inet " line ("inet"),
\* only "inet6 " lines ("inet6") or no address line ("noinet").
ProbeEnv ==
  {e \in [link : {"rc0", "rc1", "error"},
          addr : {"inet", "inet6", "noinet", "error", "skipped"},
          ping : {"rc0", "rc1", "error", "skipped"}] :
     /\ (e.addr = "skipped") <=> (e.link # "rc0")
     /\ (e.ping = "skipped") <=> (e.addr # "inet")}

\* What each of the probe's three commands would answer for one interface,
\* were it run: "error" is an exception out of run_command (for "ip addr
\* show", run with check=True, also a non-zero exit).
ProbeWorld ==
  [link : {"rc0", "rc1", "error"},
   addr : {"inet", "inet6", "noinet", "error"},
   ping : {"rc0", "rc1", "error"}]

\* Issuing ping although "ip addr show" reported no address.
ProbeMeetsPingAlways(w) ==
  [link |-> w.link,
   addr |-> IF w.link = "rc0" THEN w.addr ELSE "skipped",
   ping |-> IF w.link = "rc0" /\ w.addr \in {"inet", "inet6", "noinet"}
            THEN w.ping ELSE "skipped"]

\* The commands check_interface_connectivity issues in world w and what
\* they answer: "ip addr show" only once check_interface_exists returned
\* True, ping only once an address was found.
ProbeMeets(w) ==
  [link |-> w.link,
   addr |-> IF w.link = "rc0" THEN w.addr ELSE "skipped",
   ping |-> IF w.link = "rc0" /\ w.addr = "inet" THEN w.ping ELSE "skipped"]

\* A probe whose except clause around ping answers True.
check_interface_connectivity_fail_open(e) ==
  IF e.link # "rc0" THEN FALSE
  ELSE IF e.addr # "inet" THEN FALSE
  ELSE e.ping \in {"rc0", "error"}

\* check_interface_connectivity
check_interface_connectivity(e) ==
  IF e.link # "rc0" THEN FALSE
  ELSE IF e.addr # "inet" THEN FALSE
  ELSE e.ping = "rc0"

\* run_command logs at error level when a check=True command exits non-zero:
\* of the probe's commands only "ip addr show" runs with check=True.
ProbeLog(e) == IF e.addr = "error" THEN {"error"} ELSE {}

\* Decision with the NONE branch testing OpenVPN before Tailscale.
DecisionSecondaryFirst(cur, ts_up, ov_up) ==
  IF cur = "tailscale"
  THEN IF ~ts_up /\ ov_up THEN "openvpn" ELSE "none"
  ELSE IF cur = "openvpn"
  THEN IF ts_up THEN "tailscale" ELSE "none"
  ELSE IF ov_up THEN "openvpn"
  ELSE IF ts_up THEN "tailscale"
  ELSE "none"

\* Decision with the Tailscale branch failing over whenever OpenVPN is up.
DecisionEagerFailover(cur, ts_up, ov_up) ==
  IF cur = "tailscale"
  THEN IF ov_up THEN "openvpn" ELSE "none"
  ELSE IF cur = "openvpn"
  THEN IF ts_up THEN "tailscale" ELSE "none"
  ELSE IF ts_up THEN "tailscale"
  ELSE IF ov_up THEN "openvpn"
  ELSE "none"

\* Decision with the OpenVPN branch failing back only once OpenVPN is down.
DecisionStickySecondary(cur, ts_up, ov_up) ==
  IF cur = "tailscale"
  THEN IF ~ts_up /\ ov_up THEN "openvpn" ELSE "none"
  ELSE IF cur = "openvpn"
  THEN IF ts_up /\ ~ov_up THEN "tailscale" ELSE "none"
  ELSE IF ts_up THEN "tailscale"
  ELSE IF ov_up THEN "openvpn"
  ELSE "none"

\* Decision with the Tailscale branch failing over without looking at the
\* OpenVPN probe.
DecisionBlindFailover(cur, ts_up, ov_up) ==
  IF cur = "tailscale"
  THEN IF ~ts_up THEN "openvpn" ELSE "none"
  ELSE IF cur = "openvpn"
  THEN IF ts_up THEN "tailscale" ELSE "none"
  ELSE IF ts_up THEN "tailscale"
  ELSE IF ov_up THEN "openvpn"
  ELSE "none"

\* The failover logic of monitor_loop: the switch it invokes.
Decision(cur, ts_up, ov_up) ==
  IF cur = "tailscale"
  THEN IF ~ts_up /\ ov_up THEN "openvpn" ELSE "none"
  ELSE IF cur = "openvpn"
  THEN IF ts_up THEN "tailscale" ELSE "none"
  ELSE IF ts_up THEN "tailscale"
  ELSE IF ov_up THEN "openvpn"
  ELSE "none"

\* The failover logic of monitor_loop: the level of the line it logs.
DecisionLog(cur, ts_up, ov_up) ==
  IF cur = "tailscale"
  THEN IF ~ts_up /\ ov_up THEN {"warn"} ELSE {}
  ELSE IF cur = "openvpn"
  THEN IF ts_up THEN {"info"}
       ELSE IF ~ov_up THEN {"error"} ELSE {}
  ELSE IF ts_up THEN {"info"}
  ELSE IF ov_up THEN {"info"}
  ELSE {"warn"}

TargetIface(t) == IF t = "tailscale" THEN tailscale_interface ELSE openvpn_interface

OtherIface(t) == IF t = "tailscale" THEN openvpn_interface ELSE tailscale_interface

SwitchPcs == {"sw_del", "sw_gw", "sw_add", "sw_natdel", "sw_natchk", "sw_natadd"}

----------------------------------------------------------------------------
(* Initial state: the installer has set up NAT (VPN-only or local WAN      *)
(* routing), table usb_vpn has no default route, and a VPNMonitor has been *)
(* constructed (running = False, signal handlers installed).               *)

Init ==
  /\ route = NoRoute
  /\ nat \in {core_setup_vpn_routing, core_setup_local_routing}
  /\ running = FALSE
  /\ signals = 0
  /\ mpc = "init"
  /\ current_vpn = "none"
  /\ read_rc = 0
  /\ tailscale_up = FALSE
  /\ openvpn_up = FALSE
  /\ target = "none"
  /\ gateway_match = FALSE
  /\ sw_result = "init"
  /\ cycle_log = {}
  /\ opc = "idle"
  /\ pre_route = NoRoute
  /\ pre_nat = NoNat
  /\ op_during = FALSE
  /\ last_sw = "none"
  /\ repeat = FALSE
  /\ stable = FALSE
  /\ retry = FALSE
  /\ rewritten = FALSE
  /\ call = NoCall

----------------------------------------------------------------------------
(* VPNMonitor.monitor_loop                                                 *)

\* monitor_loop entry: logs and sets running = True.
MonitorStart ==
  /\ mpc = "init"
  /\ running' = TRUE
  /\ mpc' = "while"
  /\ UNCHANGED <<call, kernel, signals, locals, opc, history>>

\* A loop test that does not read self.running.
LoopTestIgnoresStop ==
  /\ mpc = "while"
  /\ mpc' = "read"
  /\ cycle_log' = {}
  /\ UNCHANGED <<call, kernel, running, signals, current_vpn, read_rc,
                 tailscale_up, openvpn_up, target, gateway_match, sw_result,
                 opc, history>>

\* "while self.running:"
LoopTest ==
  /\ mpc = "while"
  /\ mpc' = IF running THEN "read" ELSE "stopped"
  /\ cycle_log' = {}
  /\ UNCHANGED <<call, kernel, running, signals, current_vpn, read_rc, tailscale_up,
                 openvpn_up, target, gateway_match, sw_result, opc, history>>

\* A cycle that trusts what the previous cycle observed or set instead of
\* querying the routing table.
ReadCurrentCached ==
  /\ mpc = "read"
  /\ read_rc' = 0
  /\ current_vpn' = IF sw_result = "ok" THEN target ELSE current_vpn
  /\ mpc' = "probe_ts"
  /\ UNCHANGED <<call, kernel, running, signals, tailscale_up, openvpn_up,
                 target, gateway_match, sw_result, cycle_log, opc, history>>

\* current_vpn = self.get_current_vpn()
ReadCurrent ==
  /\ mpc = "read"
  /\ \E rc \in RC :
       /\ read_rc' = rc
       /\ current_vpn' = get_current_vpn(rc, RouteShow(route))
  /\ mpc' = "probe_ts"
  /\ UNCHANGED <<call, kernel, running, signals, tailscale_up, openvpn_up, target,
                 gateway_match, sw_result, cycle_log, opc, history>>

\* tailscale_up = self.check_interface_connectivity(self.tailscale_interface)
ProbeTailscale ==
  /\ mpc = "probe_ts"
  /\ \E e \in ProbeEnv :
       /\ tailscale_up' = check_interface_connectivity(e)
       /\ cycle_log' = cycle_log \cup ProbeLog(e)
       /\ stable' = (/\ sw_result \in {"none", "ok"}
                     /\ check_interface_connectivity(e) = tailscale_up)
       /\ retry' = (/\ sw_result = "fail"
                    /\ check_interface_connectivity(e) = tailscale_up)
  /\ mpc' = "probe_ov"
  /\ UNCHANGED <<call, kernel, running, signals, current_vpn, read_rc, openvpn_up,
                 target, gateway_match, sw_result, opc, pre_route, pre_nat,
                 op_during, last_sw, repeat, rewritten>>

\* openvpn_up = self.check_interface_connectivity(self.openvpn_interface)
ProbeOpenvpn ==
  /\ mpc = "probe_ov"
  /\ \E e \in ProbeEnv :
       /\ openvpn_up' = check_interface_connectivity(e)
       /\ cycle_log' = cycle_log \cup ProbeLog(e)
       /\ stable' = (stable /\ check_interface_connectivity(e) = openvpn_up)
       /\ retry' = (retry /\ check_interface_connectivity(e) = openvpn_up)
  /\ mpc' = "decide"
  /\ UNCHANGED <<call, kernel, running, signals, current_vpn, read_rc, tailscale_up,
                 target, gateway_match, sw_result, opc, pre_route, pre_nat,
                 op_during, last_sw, repeat, rewritten>>

\* The if/elif chain of the loop body; a switch_to_* call begins with its
\* 'Switching USB routing to ...' info line.
Decide ==
  /\ mpc = "decide"
  /\ LET t == Decision(current_vpn, tailscale_up, openvpn_up) IN
       /\ target' = t
       /\ cycle_log' = cycle_log
                         \cup DecisionLog(current_vpn, tailscale_up, openvpn_up)
                         \cup (IF t = "none" THEN {} ELSE {"info"})
       /\ sw_result' = IF t = "none" THEN "none" ELSE "pending"
       /\ mpc' = IF t = "none" THEN "sleep" ELSE "sw_del"
       /\ pre_route' = IF t = "none" THEN NoRoute ELSE route
       /\ pre_nat' = IF t = "none" THEN NoNat ELSE nat
       /\ repeat' = (t # "none" /\ last_sw = t)
  /\ op_during' = FALSE
  /\ stable' = FALSE
  /\ retry' = FALSE
  /\ rewritten' = (rewritten
                     /\ Decision(current_vpn, tailscale_up, openvpn_up) = "none")
  /\ UNCHANGED <<call, kernel, running, signals, current_vpn, read_rc,
                 tailscale_up, openvpn_up, gateway_match, opc, last_sw>>

\* time.sleep(self.check_interval)
Sleep ==
  /\ mpc = "sleep"
  /\ mpc' = "while"
  /\ pre_route' = NoRoute
  /\ pre_nat' = NoNat
  /\ op_during' = FALSE
  /\ repeat' = FALSE
  /\ UNCHANGED <<call, kernel, running, signals, locals, opc, last_sw, stable,
                 retry, rewritten>>

\* _signal_handler: SIGTERM or SIGINT delivered to the live process.
SignalHandler ==
  /\ mpc # "stopped"
  /\ signals < MaxSignals
  /\ signals' = signals + 1
  /\ running' = FALSE
  /\ cycle_log' = cycle_log \cup {"info"}
  /\ UNCHANGED <<call, kernel, mpc, current_vpn, read_rc, tailscale_up, openvpn_up,
                 target, gateway_match, sw_result, opc, history>>

\* The unit file's Restart=always: a fresh process, a fresh VPNMonitor; the
\* kernel's routing state is what the previous process left.
Restart ==
  /\ mpc = "stopped"
  /\ mpc' = "init"
  /\ running' = FALSE
  /\ current_vpn' = "none"
  /\ read_rc' = 0
  /\ tailscale_up' = FALSE
  /\ openvpn_up' = FALSE
  /\ target' = "none"
  /\ gateway_match' = FALSE
  /\ sw_result' = "init"
  /\ cycle_log' = {}
  /\ pre_route' = NoRoute
  /\ pre_nat' = NoNat
  /\ op_during' = FALSE
  /\ repeat' = FALSE
  /\ stable' = FALSE
  /\ retry' = FALSE
  /\ UNCHANGED <<call, kernel, signals, opc, last_sw, rewritten>>

----------------------------------------------------------------------------
(* VPNMonitor.switch_to_tailscale / switch_to_openvpn, one run_command     *)
(* call per step.  rc is the command's exit status.  The commands whose    *)
(* status the code ignores (check=False) or reads as an answer (iptables   *)
(* -C) exit by the kernel state alone: a delete succeeds iff its target    *)
(* exists, a check iff the rule is there.  The commands whose failure      *)
(* aborts the switch (check=True) may also fail for reasons outside the    *)
(* model: the interface has gone, the gateway is unusable, the xtables     *)
(* lock is held.                                                           *)

\* A loop body that evaluates its if/elif chain again after a switch.
SwitchReturnTrueRedecide ==
  /\ sw_result' = "ok"
  /\ cycle_log' = cycle_log \cup {"info"}
  /\ last_sw' = IF op_during THEN "none" ELSE target
  /\ gateway_match' = FALSE
  /\ mpc' = "decide"

\* "return True" after the success line is logged.
SwitchReturnTrue ==
  /\ sw_result' = "ok"
  /\ cycle_log' = cycle_log \cup {"info"}
  /\ last_sw' = IF op_during THEN "none" ELSE target
  /\ gateway_match' = FALSE
  /\ mpc' = "sleep"

\* A switch without its except clause: the error leaves monitor_loop.
SwitchRaises ==
  /\ sw_result' = "fail"
  /\ cycle_log' = cycle_log \cup {"error"}
  /\ last_sw' = "none"
  /\ gateway_match' = FALSE
  /\ mpc' = "stopped"

\* The except clause: the error is logged (by run_command and by the
\* handler) and the call returns False.
SwitchReturnFalse ==
  /\ sw_result' = "fail"
  /\ cycle_log' = cycle_log \cup {"error"}
  /\ last_sw' = "none"
  /\ gateway_match' = FALSE
  /\ mpc' = "sleep"

\* ip route del default table usb_vpn            (check=False)
SwDelRoute ==
  /\ mpc = "sw_del"
  /\ LET rc == IF route # NoRoute THEN 0 ELSE 1 IN
       route' = IF rc = 0 THEN NoRoute ELSE route
  /\ mpc' = IF target = "tailscale" THEN "sw_gw" ELSE "sw_add"
  /\ UNCHANGED <<call, nat, running, signals, current_vpn, read_rc, tailscale_up,
                 openvpn_up, target, gateway_match, sw_result, cycle_log, opc,
                 history>>

\* ip route show dev tailscale0 (check=True), then the search for a line
\* starting with 100.
SwGateway ==
  /\ mpc = "sw_gw"
  /\ \E rc \in RC, m \in BOOLEAN :
       IF rc = 0
       THEN /\ gateway_match' = m
            /\ mpc' = "sw_add"
            /\ UNCHANGED <<sw_result, cycle_log, last_sw>>
       ELSE SwitchReturnFalse
  /\ UNCHANGED <<call, kernel, running, signals, current_vpn, read_rc, tailscale_up,
                 openvpn_up, target, opc, pre_route, pre_nat, op_during,
                 repeat, stable, retry, rewritten>>

\* ip route add default [via gateway] dev <target> table usb_vpn (check=True)
SwAddRoute ==
  /\ mpc = "sw_add"
  /\ \E rc \in RC :
       /\ rc = 0 => route = NoRoute
       /\ IF rc = 0
          THEN /\ route' = [dev |-> TargetIface(target),
                            via |-> (target = "tailscale" /\ gateway_match)]
               /\ mpc' = "sw_natdel"
               /\ UNCHANGED <<sw_result, cycle_log, last_sw, gateway_match>>
          ELSE /\ SwitchReturnFalse
               /\ UNCHANGED route
  /\ UNCHANGED <<call, nat, running, signals, current_vpn, read_rc, tailscale_up,
                 openvpn_up, target, opc, pre_route, pre_nat, op_during,
                 repeat, stable, retry, rewritten>>

\* iptables -t nat -D POSTROUTING -o <other> ... (check=False)
SwNatDelete ==
  /\ mpc = "sw_natdel"
  /\ LET rc == IF NatCheck(nat, OtherIface(target)) THEN 0 ELSE 1 IN
       nat' = IF rc = 0 THEN NatDelete(nat, OtherIface(target)) ELSE nat
  /\ mpc' = "sw_natchk"
  /\ UNCHANGED <<call, route, running, signals, current_vpn, read_rc, tailscale_up,
                 openvpn_up, target, gateway_match, sw_result, cycle_log, opc,
                 history>>

\* The same command exiting non-zero although the rule is present (another
\* process holds the xtables lock, or the rule on the interface was written
\* with other options): check=False, so the exit status is dropped and the
\* switch goes on.
SwNatDeleteFails ==
  /\ mpc = "sw_natdel"
  /\ NatCheck(nat, OtherIface(target))
  /\ mpc' = "sw_natchk"
  /\ UNCHANGED <<call, kernel, running, signals, current_vpn, read_rc, tailscale_up,
                 openvpn_up, target, gateway_match, sw_result, cycle_log, opc,
                 history>>

\* iptables -t nat -C POSTROUTING -o <target> ... (check=True, inner try)
SwNatCheck ==
  /\ mpc = "sw_natchk"
  /\ LET rc == IF NatCheck(nat, TargetIface(target)) THEN 0 ELSE 1 IN
       IF rc = 0
       THEN SwitchReturnTrue
       ELSE /\ mpc' = "sw_natadd"
            /\ UNCHANGED <<sw_result, cycle_log, last_sw, gateway_match>>
  /\ UNCHANGED <<call, kernel, running, signals, current_vpn, read_rc, tailscale_up,
                 openvpn_up, target, opc, pre_route, pre_nat, op_during,
                 repeat, stable, retry, rewritten>>

\* iptables -t nat -A POSTROUTING -o <target> ... (check=True, inner except)
SwNatAppend ==
  /\ mpc = "sw_natadd"
  /\ \E rc \in RC :
       /\ rc = 0 => nat[TargetIface(target)] < MaxRules
       /\ IF rc = 0
          THEN /\ nat' = NatAppend(nat, TargetIface(target))
               /\ SwitchReturnTrue
          ELSE /\ SwitchReturnFalse
               /\ UNCHANGED nat
  /\ UNCHANGED <<call, route, running, signals, current_vpn, read_rc, tailscale_up,
                 openvpn_up, target, opc, pre_route, pre_nat, op_during,
                 repeat, stable, retry, rewritten>>

switch_to_tailscale ==
  /\ target = "tailscale"
  /\ (SwDelRoute \/ SwGateway \/ SwAddRoute \/ SwNatDelete \/ SwNatCheck
        \/ SwNatAppend)

switch_to_openvpn ==
  /\ target = "openvpn"
  /\ (SwDelRoute \/ SwAddRoute \/ SwNatDelete \/ SwNatCheck \/ SwNatAppend)

----------------------------------------------------------------------------
(* Operator: usb-router-tailscale on / off (cli.py), a separate process;   *)
(* the dashboard's /api/vpn/switch-routing runs the same commands.  All    *)
(* its commands run with check=True: a failure propagates to the command's *)
(* handler, which prints it and returns.                                   *)

\* A command from outside the monitor changed the routing state.
OpTouched ==
  /\ op_during' = (mpc \in SwitchPcs \cup {"sleep"})
  /\ last_sw' = "none"

\* One iptables command of the operator's sequence on the NAT rules: on
\* success nat becomes n and the sequence goes on at next.
OpCommand(at, ok, n, next) ==
  /\ opc = at
  /\ \E rc \in RC :
       /\ rc = 0 => ok
       /\ IF rc = 0
          THEN /\ nat' = n
               /\ opc' = next
               /\ OpTouched
               /\ rewritten' = (next = "idle" /\ mpc \in {"sleep", "while"})
          ELSE /\ opc' = "idle"
               /\ rewritten' = FALSE
               /\ UNCHANGED <<nat, op_during, last_sw>>
  /\ UNCHANGED <<call, route, running, signals, mpc, locals, pre_route, pre_nat,
                 repeat, stable, retry>>

\* tailscale_on up to the call of _setup_vpn_routing.
tailscale_on ==
  /\ opc = "idle"
  /\ opc' = "vpn_flush"
  /\ UNCHANGED <<call, kernel, running, signals, mpc, locals, history>>

\* _setup_vpn_routing: iptables -t nat -F POSTROUTING
OpVpnFlush == OpCommand("vpn_flush", TRUE, NoNat, "vpn_add_ts")

\* _setup_vpn_routing: iptables -t nat -A POSTROUTING -o tailscale0 ...
OpVpnAppendTailscale ==
  OpCommand("vpn_add_ts", nat[tailscale_interface] < MaxRules,
            NatAppend(nat, tailscale_interface), "vpn_add_ov")

\* _setup_vpn_routing: iptables -t nat -A POSTROUTING -o tun0 ...
OpVpnAppendOpenvpn ==
  OpCommand("vpn_add_ov", nat[openvpn_interface] < MaxRules,
            NatAppend(nat, openvpn_interface), "idle")

\* A tailscale_off that also tells the monitor to stop.
tailscale_off_stops_monitor ==
  /\ opc = "idle"
  /\ opc' = "local_flush"
  /\ running' = FALSE
  /\ UNCHANGED <<call, kernel, signals, mpc, locals, history>>

\* tailscale_off up to the call of _setup_local_routing.
tailscale_off ==
  /\ opc = "idle"
  /\ opc' = "local_flush"
  /\ UNCHANGED <<call, kernel, running, signals, mpc, locals, history>>

\* _setup_local_routing: iptables -t nat -F POSTROUTING
OpLocalFlush == OpCommand("local_flush", TRUE, NoNat, "local_add")

\* _setup_local_routing: iptables -t nat -A POSTROUTING -o <wan> ...
OpLocalAppendWan ==
  OpCommand("local_add", nat[wan_interface] < MaxRules,
            NatAppend(nat, wan_interface), "idle")

----------------------------------------------------------------------------
(* usb-router-vpn-monitor --status-only: main constructs its own VPNMonitor *)
(* in a separate process, calls get_status once, prints it and exits.       *)

\* A get_status that also clears the masquerade rules.
get_status_flushes ==
  /\ call.fn = "none"
  /\ call' = [fn |-> "get_status", current_vpn |-> "none", tailscale |-> "DOWN",
              openvpn |-> "DOWN", monitor_running |-> FALSE]
  /\ nat' = NoNat
  /\ UNCHANGED <<route, running, signals, mpc, locals, opc, history>>

\* get_status: the dict it returns; 'monitor_running' is the running flag
\* of the VPNMonitor it is called on, which never entered monitor_loop.
get_status ==
  /\ call.fn = "none"
  /\ \E rc \in RC, ts \in ProbeEnv, ov \in ProbeEnv :
       call' = [fn |-> "get_status",
                current_vpn |-> get_current_vpn(rc, RouteShow(route)),
                tailscale |-> IF check_interface_connectivity(ts)
                              THEN "UP" ELSE "DOWN",
                openvpn |-> IF check_interface_connectivity(ov)
                            THEN "UP" ELSE "DOWN",
                monitor_running |-> FALSE]
  /\ UNCHANGED <<kernel, running, signals, mpc, locals, opc, history>>

\* main prints the status and returns.
StatusReturn ==
  /\ call.fn = "get_status"
  /\ call' = NoCall
  /\ UNCHANGED <<kernel, running, signals, mpc, locals, opc, history>>

----------------------------------------------------------------------------
(* The read-side operations called on their own, for every outcome of the  *)
(* commands they run.                                                      *)

\* A call of check_interface_connectivity(interface) about to be made in a
\* world where the interface's three commands would answer as in world.
ProbeCalls ==
  [fn : {"check_interface_connectivity"}, interface : Backends,
   world : ProbeWorld, returned : {FALSE}, result : {FALSE},
   meets : {[link |-> "skipped", addr |-> "skipped", ping |-> "skipped"]}]

\* A call of get_current_vpn() about to be made: the exit status of the
\* query, the interface of the table's default route and the interfaces of
\* the table's other routes.
ReadCalls ==
  [fn : {"get_current_vpn"}, rc : RC, default : {"none"} \cup Ifaces,
   others : SUBSET Ifaces, returned : {FALSE}, result : {"none"}]

\* RouterConfig(...) about to be constructed from fields an installer or a
\* configuration dictionary supplies: the client network, the router's
\* address on it, the dashboard port and the name of a VPN interface.
ConfigCalls ==
  [fn : {"RouterConfig"},
   usb_network : {"192.168.64.0/24", "192.168.64.0/33"},
   usb_ip : {"192.168.64.1", "10.0.0.1"},
   dashboard_port : {0, 8000},
   tailscale_interface : {"tailscale0", ""},
   returned : {FALSE}, result : {"ok"}]

\* ipaddress.IPv4Network(s, strict=False) accepts prefix lengths 0..32.
IPv4NetworkOk(s) == s = "192.168.64.0/24"

\* "usb_ip not in network" for the networks that parse.
InNetwork(ip, net) == net = "192.168.64.0/24" /\ ip = "192.168.64.1"

\* RouterConfig.validate: the network, the addresses and the port are
\* checked; no statement reads an interface name.
validate(c) ==
  IF ~IPv4NetworkOk(c.usb_network) THEN "ValueError"
  ELSE IF ~InNetwork(c.usb_ip, c.usb_network) THEN "ValueError"
  ELSE IF ~(1 <= c.dashboard_port /\ c.dashboard_port <= 65535) THEN "ValueError"
  ELSE "ok"

\* __post_init__ runs validate; its exception is the constructor's.
call_RouterConfig ==
  /\ call.fn = "RouterConfig"
  /\ ~call.returned
  /\ call' = [call EXCEPT !.returned = TRUE, !.result = validate(call)]
  /\ UNCHANGED <<kernel, running, signals, mpc, locals, opc, history>>

call_check_interface_connectivity ==
  /\ call.fn = "check_interface_connectivity"
  /\ ~call.returned
  /\ call' = [call EXCEPT
                !.returned = TRUE,
                !.meets = ProbeMeets(call.world),
                !.result = check_interface_connectivity(ProbeMeets(call.world))]
  /\ UNCHANGED <<kernel, running, signals, mpc, locals, opc, history>>

call_get_current_vpn ==
  /\ call.fn = "get_current_vpn"
  /\ ~call.returned
  /\ call' = [call EXCEPT
                !.returned = TRUE,
                !.result = get_current_vpn(call.rc,
                                           TableShow(call.default, call.others))]
  /\ UNCHANGED <<kernel, running, signals, mpc, locals, opc, history>>

----------------------------------------------------------------------------
(* An actor outside the program (a manual "ip route" command on table      *)
(* usb_vpn) replaces, adds or removes the table's default route.           *)

ExternalRoute ==
  /\ \E r \in Routes \ {route} : route' = r
  /\ OpTouched
  /\ rewritten' = FALSE
  /\ UNCHANGED <<call, nat, running, signals, mpc, locals, opc, pre_route,
                 pre_nat, repeat, stable, retry>>

----------------------------------------------------------------------------

Next ==
  \/ MonitorStart
  \/ LoopTest
  \/ ReadCurrent
  \/ ProbeTailscale
  \/ ProbeOpenvpn
  \/ Decide
  \/ switch_to_tailscale
  \/ switch_to_openvpn
  \/ Sleep
  \/ SignalHandler
  \/ Restart
  \/ tailscale_on
  \/ OpVpnFlush
  \/ OpVpnAppendTailscale
  \/ OpVpnAppendOpenvpn
  \/ tailscale_off
  \/ OpLocalFlush
  \/ OpLocalAppendWan

Spec == Init /\ [][Next]_vars

\* A step of the monitor process.
MonitorStep ==
  \/ MonitorStart
  \/ LoopTest
  \/ ReadCurrent
  \/ ProbeTailscale
  \/ ProbeOpenvpn
  \/ Decide
  \/ switch_to_tailscale
  \/ switch_to_openvpn
  \/ Sleep

\* The monitor process is scheduled: each of its commands returns (ping is
\* bounded by -W, the sleep by check_interval) and its next step is taken.
FairSpec == Spec /\ WF_vars(MonitorStep)

\* The monitor process and status queries made while it runs.
NextStatus ==
  \/ MonitorStep
  \/ SignalHandler
  \/ Restart
  \/ get_status
  \/ StatusReturn

SpecStatus == Init /\ [][NextStatus]_vars

\* The read-side operations on their own: a VPNMonitor has been constructed
\* and one operation is called on it once.
PureInit ==
  /\ call \in ProbeCalls \cup ReadCalls \cup ConfigCalls
  /\ route = NoRoute
  /\ nat \in {core_setup_vpn_routing, core_setup_local_routing}
  /\ running = FALSE
  /\ signals = 0
  /\ mpc = "init"
  /\ current_vpn = "none"
  /\ read_rc = 0
  /\ tailscale_up = FALSE
  /\ openvpn_up = FALSE
  /\ target = "none"
  /\ gateway_match = FALSE
  /\ sw_result = "init"
  /\ cycle_log = {}
  /\ opc = "idle"
  /\ pre_route = NoRoute
  /\ pre_nat = NoNat
  /\ op_during = FALSE
  /\ last_sw = "none"
  /\ repeat = FALSE
  /\ stable = FALSE
  /\ retry = FALSE
  /\ rewritten = FALSE

PureNext ==
  \/ call_check_interface_connectivity
  \/ call_get_current_vpn
  \/ call_RouterConfig

PureSpec == PureInit /\ [][PureNext]_vars

\* The monitor process where iptables -D may exit non-zero with the rule
\* still in place.
NextLock ==
  \/ MonitorStep
  \/ SignalHandler
  \/ Restart
  \/ SwNatDeleteFails

SpecLock == Init /\ [][NextLock]_vars

\* One run of main: the monitor process from construction to the end of
\* its loop, with signals, and no restart by the service manager.
NextRun ==
  \/ MonitorStep
  \/ SignalHandler

SpecRun == Init /\ [][NextRun]_vars

\* The monitor process and an external actor on the policy table.
NextExt ==
  \/ MonitorStep
  \/ SignalHandler
  \/ Restart
  \/ ExternalRoute

SpecExt == Init /\ [][NextExt]_vars

TypeOK ==
  /\ route \in Routes
  /\ nat \in [Ifaces -> 0..MaxRules]
  /\ running \in BOOLEAN
  /\ signals \in 0..MaxSignals
  /\ mpc \in {"init", "while", "read", "probe_ts", "probe_ov", "decide",
              "sleep", "stopped"} \cup SwitchPcs
  /\ current_vpn \in {"none", "tailscale", "openvpn"}
  /\ target \in {"none", "tailscale", "openvpn"}
  /\ sw_result \in {"init", "none", "pending", "ok", "fail"}
  /\ cycle_log \subseteq {"info", "warn", "error"}
  /\ opc \in {"idle", "vpn_flush", "vpn_add_ts", "vpn_add_ov", "local_flush",
              "local_add"}
  /\ call.fn \in {"none", "get_status", "check_interface_connectivity",
                  "get_current_vpn", "RouterConfig"}

----------------------------------------------------------------------------
(* Properties                                                              *)

\* The transition table of the design (section 4.4), row by row: the switch
\* to invoke for a freshly read state and the two probe results.
TableAction(state, primary, secondary) ==
  CASE state = "none" /\ primary -> "tailscale"
    [] state = "none" /\ ~primary /\ secondary -> "openvpn"
    [] state = "none" /\ ~primary /\ ~secondary -> "none"
    [] state = "tailscale" /\ primary -> "none"
    [] state = "tailscale" /\ ~primary /\ secondary -> "openvpn"
    [] state = "tailscale" /\ ~primary /\ ~secondary -> "none"
    [] state = "openvpn" /\ primary -> "tailscale"
    [] state = "openvpn" /\ ~primary /\ secondary -> "none"
    [] state = "openvpn" /\ ~primary /\ ~secondary -> "none"

\* The same table's last column: the next state.
TableNext(state, primary, secondary) ==
  CASE state = "none" /\ primary -> "tailscale"
    [] state = "none" /\ ~primary /\ secondary -> "openvpn"
    [] state = "none" /\ ~primary /\ ~secondary -> "none"
    [] state = "tailscale" /\ primary -> "tailscale"
    [] state = "tailscale" /\ ~primary /\ secondary -> "openvpn"
    [] state = "tailscale" /\ ~primary /\ ~secondary -> "tailscale"
    [] state = "openvpn" /\ primary -> "tailscale"
    [] state = "openvpn" /\ ~primary /\ secondary -> "openvpn"
    [] state = "openvpn" /\ ~primary /\ ~secondary -> "openvpn"

\* The step of the loop that takes the cycle's decision.
DecideStep == mpc = "decide" /\ mpc' # "decide"

\* The step of the loop that reads the current backend.
ReadStep == mpc = "read" /\ mpc' # "read"

\* A step of the monitor inside switch_to_*.
SwitchStep == mpc \in SwitchPcs /\ mpc' # mpc

\* What get_current_vpn derives from the policy table when its query works.
CurrentBackend == get_current_vpn(0, RouteShow(route))

\* C1: for every freshly read backend and every pair of probe results the
\* cycle invokes exactly the switch the transition table lists (and none
\* when it lists none); and after a cycle whose switch succeeded, the
\* backend the next cycle reads from the policy table is the table's next
\* state.
C1_TransitionTable ==
  [][ /\ DecideStep =>
           /\ target' = TableAction(current_vpn, tailscale_up, openvpn_up)
           /\ (mpc' = "sw_del") <=> (target' # "none")
           /\ (mpc' = "sleep") <=> (target' = "none")
      /\ (ReadStep /\ sw_result = "ok" /\ read_rc' = 0) =>
           current_vpn' = TableNext(current_vpn, tailscale_up, openvpn_up)
    ]_vars

\* C1 witness: the cycle after a successful failover (ON_PRIMARY, primary
\* down, secondary up) has read the backend.
C1_Witness ==
  /\ mpc = "probe_ts"
  /\ sw_result = "ok"
  /\ read_rc = 0
  /\ current_vpn = "openvpn"
  /\ ~tailscale_up
  /\ openvpn_up
  /\ last_sw = "openvpn"

\* C2: within a switch that follows a successful switch, with no operator
\* command since, the masquerade rule of the other backend's interface is
\* removed only when the rule on the target's interface is installed, and
\* no step of the switch takes the number of masquerade rules for the client
\* subnet from at least one to zero.
C2_NewNatBeforeOld ==
  [][ (SwitchStep /\ last_sw # "none" /\ opc = "idle") =>
        /\ nat'[OtherIface(target)] < nat[OtherIface(target)] =>
             NatCheck(nat, TargetIface(target))
        /\ NatTotal(nat) > 0 => NatTotal(nat') > 0
    ]_vars

\* C3: a switch that returns False leaves the default route and the
\* masquerade rules as they were when it was invoked.
C3_FailedSwitchRestores ==
  (mpc = "sleep" /\ sw_result = "fail" /\ ~op_during) =>
    (route = pre_route /\ nat = pre_nat)

\* C4: after a switch that returns True the default route egresses through
\* the target's interface, there is exactly one masquerade rule for the
\* client subnet, it is on the target's interface, and none is on the other
\* backend's interface.
C4_AfterSwitch ==
  (mpc = "sleep" /\ sw_result = "ok" /\ ~op_during) =>
    /\ route.dev = TargetIface(target)
    /\ NatTotal(nat) = 1
    /\ nat[TargetIface(target)] = 1
    /\ nat[OtherIface(target)] = 0

\* C5: the monitor is never part-way through the mutations of a switch
\* while the operator's command is part-way through its own.
C5_SwitchMutex ==
  ~ (/\ mpc \in SwitchPcs \ {"sw_del"}
     /\ opc \in {"vpn_add_ts", "vpn_add_ov", "local_add"})

\* C6: a successful switch to the backend that the previous successful
\* switch targeted, with nothing else touching the routing state between
\* and during the two, changes neither the default route's interface nor
\* the masquerade rules (it adds no second rule and removes none).
C6_Idempotent ==
  (mpc = "sleep" /\ sw_result = "ok" /\ repeat /\ ~op_during) =>
    /\ route.dev = pre_route.dev
    /\ nat = pre_nat

\* C7 as stated: in a cycle whose probes repeat those of the previous cycle,
\* which ended in its steady state, no switch is invoked.
C7_NoFlap ==
  [][ (DecideStep /\ stable) => target' = "none" ]_vars

\* C7 (amended): in a cycle whose probes repeat those of the previous cycle,
\* which ended in its steady state, and whose routing-table query succeeded,
\* no switch is invoked.
C7_NoFlapWhenRead ==
  [][ (DecideStep /\ stable /\ read_rc = 0) => target' = "none" ]_vars

\* C7 witness: a cycle after a successful failover to OpenVPN has read the
\* table and found the same probe results again.
C7_Witness ==
  /\ mpc = "decide"
  /\ stable
  /\ read_rc = 0
  /\ sw_result = "ok"
  /\ current_vpn = "openvpn"
  /\ ~tailscale_up
  /\ openvpn_up

\* C8: a cycle that read ON_SECONDARY and found Tailscale reachable has
\* invoked switch_to_tailscale, whatever OpenVPN's probe said, and when that
\* switch returned True the policy table's backend is Tailscale.
C8_ImmediateFailback ==
  (mpc = "sleep" /\ current_vpn = "openvpn" /\ tailscale_up) =>
    /\ target = "tailscale"
    /\ sw_result \in {"ok", "fail"}
    /\ sw_result = "ok" => CurrentBackend = "tailscale"

\* C8 witness: failback completed in a cycle in which OpenVPN was healthy.
C8_Witness ==
  /\ mpc = "sleep"
  /\ current_vpn = "openvpn"
  /\ tailscale_up
  /\ openvpn_up
  /\ sw_result = "ok"
  /\ pre_route.dev = openvpn_interface

\* C9: a cycle that read ON_PRIMARY and found both backends unreachable
\* invokes no switch, leaves the table on Tailscale and logs an error.
C9_ScenarioD ==
  (mpc = "sleep" /\ current_vpn = "tailscale" /\ ~tailscale_up /\ ~openvpn_up) =>
    /\ target = "none"
    /\ CurrentBackend = "tailscale"
    /\ "error" \in cycle_log

\* C10: a cycle that started with no default route, found Tailscale
\* unreachable and OpenVPN reachable and whose switch returned True ends on
\* OpenVPN with exactly one masquerade rule for the client subnet, on tun0,
\* and none on tailscale0.
C10_ScenarioA ==
  (/\ mpc = "sleep"
   /\ current_vpn = "none"
   /\ read_rc = 0
   /\ pre_route = NoRoute
   /\ ~tailscale_up
   /\ openvpn_up
   /\ sw_result = "ok"
   /\ ~op_during) =>
    /\ CurrentBackend = "openvpn"
    /\ NatTotal(nat) = 1
    /\ nat[openvpn_interface] = 1
    /\ nat[tailscale_interface] = 0

\* The cycle read ON_PRIMARY with Tailscale down and OpenVPN up (Scenario B)
\* or read ON_SECONDARY with Tailscale up (Scenario C).
ScenarioBC ==
  \/ current_vpn = "tailscale" /\ ~tailscale_up /\ openvpn_up
  \/ current_vpn = "openvpn" /\ tailscale_up

\* C11: after a cycle that failed over or failed back, its switch having
\* returned True with no operator command during it, the default route
\* egresses through the newly active backend's interface, a masquerade rule
\* is on that interface and none is on the previously active backend's.
C11_RuleMoved ==
  (mpc = "sleep" /\ ScenarioBC /\ sw_result = "ok" /\ ~op_during) =>
    /\ route.dev = TargetIface(target)
    /\ nat[TargetIface(target)] >= 1
    /\ nat[OtherIface(target)] = 0

\* C12: in a cycle whose probes repeat those of the previous cycle, whose
\* switch returned False, the same switch is invoked again.
C12_FailedSwitchRetried ==
  [][ (DecideStep /\ retry) => target' = target ]_vars

\* C13: no step of a cycle ends the loop or clears the running flag: the
\* loop stops only at its test, with the flag cleared by a signal; after
\* the sleep that ends a cycle, whatever failed in it, the test is next, and
\* with the flag set the test starts a further cycle.
C13_ErrorsKeepLoop ==
  [][ /\ (mpc' = "stopped" /\ mpc # "stopped") =>
           (mpc = "while" /\ ~running /\ signals > 0)
      /\ (running /\ ~running') => signals' > signals
      /\ (mpc = "sleep" /\ mpc' # mpc) => mpc' = "while"
      /\ (mpc = "while" /\ mpc' # mpc /\ running) => mpc' = "read"
    ]_vars

\* C13 witness: a cycle whose routing-table query and whose switch both
\* failed is over, no stop was requested and a further cycle has begun.
C13_Witness ==
  /\ mpc = "read"
  /\ running
  /\ signals = 0
  /\ read_rc = 1
  /\ sw_result = "fail"

\* A stop was requested of the running loop and is not yet honoured.
StopPending == ~running /\ signals > 0 /\ mpc \notin {"init", "stopped"}

\* C14: the signal handler only clears the running flag; with a stop
\* pending a switch in progress goes on to its next step or returns, the
\* loop test ends the loop, no cycle is started; and the loop terminates.
C14_CooperativeStop ==
  /\ [][ /\ signals' > signals =>
              (~running' /\ mpc' = mpc /\ route' = route /\ nat' = nat)
         /\ (StopPending /\ mpc \in SwitchPcs /\ mpc' # mpc) =>
              mpc' \in SwitchPcs \cup {"sleep"}
         /\ (StopPending /\ mpc = "while" /\ mpc' # mpc) => mpc' = "stopped"
         /\ (StopPending /\ mpc' = "read") => mpc = "read"
       ]_vars
  /\ StopPending ~> (mpc = "stopped")

\* C14 witness: a stop is pending while a switch is between its route and
\* its NAT commands.
C14_Witness ==
  /\ StopPending
  /\ mpc = "sw_natdel"
  /\ route.dev = TargetIface(target)

\* C15: a cycle's steps come in the order read, probe, probe, decide; the
\* read sets current_vpn from the policy table as it is at that moment (as
\* 'none' when the query fails), nothing overwrites it before the decision,
\* and the decision is the transition table's entry for that value: also in
\* the first cycle after a restart, and also when the table's default route
\* is not the one the loop last observed or installed.
C15_FreshRead ==
  [][ /\ (mpc' = "probe_ts" /\ mpc # "probe_ts") => mpc = "read"
      /\ (mpc' = "probe_ov" /\ mpc # "probe_ov") => mpc = "probe_ts"
      /\ (mpc' = "decide" /\ mpc # "decide") => mpc = "probe_ov"
      /\ (mpc' \in SwitchPcs /\ mpc \notin SwitchPcs) => mpc = "decide"
      /\ ReadStep => current_vpn' = get_current_vpn(read_rc', RouteShow(route))
      /\ mpc \in {"probe_ts", "probe_ov", "decide"} => current_vpn' = current_vpn
      /\ DecideStep =>
           target' = TableAction(current_vpn, tailscale_up, openvpn_up)
    ]_vars

\* C15 witness: the previous cycle switched to Tailscale successfully, the
\* table's default route was then moved to tun0 from outside, and this cycle
\* has read ON_SECONDARY.
C15_Witness ==
  /\ mpc = "decide"
  /\ sw_result = "ok"
  /\ target = "tailscale"
  /\ read_rc = 0
  /\ current_vpn = "openvpn"
  /\ route.dev = openvpn_interface

\* C16: the operator's commands write nothing the monitor holds (its flag,
\* its position, its locals) and leave the policy table alone; each cycle
\* reads the backend from the table and decides by the transition table on
\* that value and the cycle's probe results, after an override as before.
C16_OverrideNotSticky ==
  [][ /\ opc' # opc =>
           UNCHANGED <<route, running, signals, mpc, current_vpn, read_rc,
                       tailscale_up, openvpn_up, target, gateway_match,
                       sw_result, cycle_log>>
      /\ (ReadStep /\ read_rc' = 0) => current_vpn' = CurrentBackend
      /\ DecideStep =>
           /\ target' = TableAction(current_vpn, tailscale_up, openvpn_up)
           /\ mpc' = IF target' = "none" THEN "sleep" ELSE "sw_del"
    ]_vars

\* C16 witness: after the previous cycle's switch to OpenVPN returned True
\* the operator ran "usb-router-tailscale off" to its end (the rules are
\* flushed, the WAN rule installed), and the next cycle has read the backend
\* and probed.
C16_Witness ==
  /\ mpc = "decide"
  /\ opc = "idle"
  /\ sw_result = "ok"
  /\ target = "openvpn"
  /\ nat[openvpn_interface] = 0
  /\ nat[wan_interface] = 1
  /\ read_rc = 0
  /\ current_vpn = "openvpn"

\* A step of a probe of the loop.
ProbeStep == mpc \in {"probe_ts", "probe_ov"} /\ mpc' # mpc

\* A step of a status query: get_status is called or has returned.
StatusStep == call' # call

\* C17: the loop's read of the current backend, its probes, and a status
\* query made at any point of a cycle leave the default route, the
\* masquerade rules and the running flag as they are; a status query also
\* leaves the loop's position and locals as they are, so the loop's next
\* decision or switch step is what it would be without the query.
C17_PureReads ==
  [][ /\ (ReadStep \/ ProbeStep \/ StatusStep) =>
           (route' = route /\ nat' = nat /\ running' = running)
      /\ StatusStep =>
           UNCHANGED <<mpc, current_vpn, read_rc, tailscale_up, openvpn_up,
                       target, gateway_match, sw_result, cycle_log, signals>>
    ]_vars

\* C17 witness: get_status has returned its dict while the loop is between
\* the route commands and the NAT commands of a switch.
C17_Witness ==
  /\ call.fn = "get_status"
  /\ call.current_vpn = "openvpn"
  /\ call.tailscale = "DOWN"
  /\ mpc = "sw_natdel"
  /\ target = "openvpn"
  /\ running

\* check_interface_connectivity has returned from a call made on its own.
ProbeReturned == call.fn = "check_interface_connectivity" /\ call.returned

\* C18: the probe returns False whenever the interface does not exist or a
\* command it issued failed: the interface lookup or the address query
\* raised or exited non-zero, ping raised, timed out or exited non-zero.
C18_ProbeFailClosed ==
  (/\ ProbeReturned
   /\ \/ call.meets.link # "rc0"
      \/ call.meets.addr = "error"
      \/ call.meets.ping \in {"rc1", "error"}) =>
    call.result = FALSE

\* C18 witness: the interface exists and has an address, ping raised, and
\* the probe has returned False.
C18_Witness ==
  /\ ProbeReturned
  /\ call.world.link = "rc0"
  /\ call.world.addr = "inet"
  /\ call.meets.ping = "error"
  /\ call.result = FALSE

\* "ip addr show" lists an address of the interface, of either family.
HasAddress(w) == w.addr \in {"inet", "inet6"}

\* C19 as stated: the probe returns True exactly when the interface exists,
\* has an address and ping through it succeeds, and it issues no ping when
\* the interface is missing or has no address.
C19_ProbeContract ==
  ProbeReturned =>
    /\ call.result = TRUE <=> (/\ call.world.link = "rc0"
                               /\ HasAddress(call.world)
                               /\ call.world.ping = "rc0")
    /\ (call.world.link # "rc0" \/ ~HasAddress(call.world)) =>
         call.meets.ping = "skipped"

\* C19 (amended): the probe returns True exactly when the interface exists,
\* has an IPv4 address and ping through it succeeds, and it issues no ping
\* when the interface is missing or has no IPv4 address.
C19_ProbeContractInet ==
  ProbeReturned =>
    /\ call.result = TRUE <=> (/\ call.world.link = "rc0"
                               /\ call.world.addr = "inet"
                               /\ call.world.ping = "rc0")
    /\ (call.world.link # "rc0" \/ call.world.addr # "inet") =>
         call.meets.ping = "skipped"

\* C19 witness: the interface exists with an IPv6 address only; a ping
\* through it would succeed, none was issued and the probe has returned
\* False.
C19_Witness ==
  /\ ProbeReturned
  /\ call.world.link = "rc0"
  /\ call.world.addr = "inet6"
  /\ call.world.ping = "rc0"
  /\ call.meets.ping = "skipped"
  /\ call.result = FALSE

\* C20: when its query succeeds, get_current_vpn returns the backend of the
\* interface of the table's default route ('none' without a default route
\* or with one through another interface), whatever other routes the table
\* holds.
C20_DefaultRouteOnly ==
  (call.fn = "get_current_vpn" /\ call.returned /\ call.rc = 0) =>
    call.result = IF call.default = tailscale_interface THEN "tailscale"
                  ELSE IF call.default = openvpn_interface THEN "openvpn"
                  ELSE "none"

\* C21: a routing-table query that fails makes get_current_vpn return
\* 'none' and the loop go on to its probes, and the cycle's decision is the
\* transition table's entry for NONE.
C21_ReadErrorIsNone ==
  [][ /\ (ReadStep /\ read_rc' # 0) =>
           (current_vpn' = "none" /\ mpc' = "probe_ts")
      /\ (DecideStep /\ read_rc # 0) =>
           target' = TableAction("none", tailscale_up, openvpn_up)
    ]_vars

\* C21 witness: the table's default route was on tailscale0, the query
\* failed, Tailscale was found reachable and the cycle has invoked
\* switch_to_tailscale.
C21_Witness ==
  /\ mpc = "sw_del"
  /\ read_rc = 1
  /\ current_vpn = "none"
  /\ pre_route.dev = tailscale_interface
  /\ tailscale_up
  /\ target = "tailscale"

\* C23: the loop's positions follow one another as read, probe of
\* Tailscale, probe of OpenVPN, decision, then either the sleep or one
\* switch and the sleep, then the loop test; a switch is entered only from
\* the decision, and is left only for the sleep.
C23_CycleOrder ==
  [][ mpc' # mpc =>
        /\ mpc = "while" => mpc' \in {"read", "stopped"}
        /\ mpc = "read" => mpc' = "probe_ts"
        /\ mpc = "probe_ts" => mpc' = "probe_ov"
        /\ mpc = "probe_ov" => mpc' = "decide"
        /\ mpc = "decide" => mpc' \in {"sw_del", "sleep"}
        /\ mpc \in SwitchPcs => mpc' \in (SwitchPcs \ {"sw_del"}) \cup {"sleep"}
        /\ mpc = "sleep" => mpc' = "while"
    ]_vars

\* C23 witness: a cycle that switched has reached its sleep.
C23_Witness ==
  /\ mpc = "sleep"
  /\ sw_result = "ok"
  /\ target = "openvpn"
  /\ route.dev = openvpn_interface

\* C24: no interface ever carries more than one masquerade rule for the
\* client subnet.
C24_AtMostOneRule == \A i \in Ifaces : nat[i] <= 1

\* C22: a configuration with an invalid client-network CIDR or an invalid
\* interface name is refused: constructing it raises.
C22_InvalidConfigRefused ==
  (call.fn = "RouterConfig" /\ call.returned
     /\ (~IPv4NetworkOk(call.usb_network) \/ call.tailscale_interface = "")) =>
    call.result = "ValueError"

\* C25: at the step where a switch returns True the default route leaves
\* through the target's interface, the target's interface has a masquerade
\* rule and the other backend's interface has none, also when the removal
\* of the other backend's rule failed for a reason other than absence.
C25_SuccessMeansReconciled ==
  [][ (sw_result = "pending" /\ sw_result' = "ok") =>
        /\ route'.dev = TargetIface(target)
        /\ nat'[TargetIface(target)] >= 1
        /\ nat'[OtherIface(target)] = 0 ]_vars

\* C26: a switch to Tailscale leaves the policy table's default route as it
\* is until the gateway lookup has completed, and a failed gateway lookup
\* leaves the route the switch found.
C26_ResolveBeforeMutate ==
  [][ /\ (target = "tailscale" /\ mpc \in {"sw_del", "sw_gw"}) => route' = route
      /\ (mpc = "sw_gw" /\ sw_result' = "fail") => route' = pre_route ]_vars

\* C30: while a switch from one backend to the other is in progress, and
\* after it has failed, the policy table still has a default route.
C30_NeverUnrouted ==
  (/\ mpc \in SwitchPcs \cup {"sleep"}
   /\ sw_result \in {"pending", "fail"}
   /\ pre_route.dev = OtherIface(target)) =>
    route # NoRoute

\* C27: a cycle never invokes the switch to a backend whose probe returned
\* false; and at the end of a cycle in which a probe returned true and no
\* switch failed, the default route belongs to Tailscale if its probe
\* returned true and to OpenVPN otherwise.
C27_ActiveIsReachable ==
  /\ [][ DecideStep => /\ (target' = "tailscale" => tailscale_up)
                       /\ (target' = "openvpn" => openvpn_up) ]_vars
  /\ [](( /\ mpc = "sleep"
          /\ (tailscale_up \/ openvpn_up)
          /\ sw_result \in {"none", "ok"} ) =>
           CurrentBackend = IF tailscale_up THEN "tailscale" ELSE "openvpn")

\* A failover from Tailscale to OpenVPN has completed.
C27_Witness ==
  /\ mpc = "sleep"
  /\ current_vpn = "tailscale"
  /\ read_rc = 0
  /\ ~tailscale_up
  /\ openvpn_up
  /\ sw_result = "ok"
  /\ CurrentBackend = "openvpn"

\* C28: within one run of the process, once a stop signal has been
\* delivered (at any moment after construction) the running flag is clear
\* and stays clear, so that the next loop test ends the loop.
C28_StopNeverLost == signals > 0 => ~running

\* The client subnet has a masquerade rule on the interface of the policy
\* table's default route and none on the other backend's interface.
NatConsistent ==
  /\ route.dev = tailscale_interface =>
       (nat[tailscale_interface] >= 1 /\ nat[openvpn_interface] = 0)
  /\ route.dev = openvpn_interface =>
       (nat[openvpn_interface] >= 1 /\ nat[tailscale_interface] = 0)

\* C29: a cycle that follows a completed operator command, finds rules
\* that do not match the default route and sees the probe results of the
\* previous cycle invokes a switch, the only code of the loop that writes
\* masquerade rules.
C29_NatRestored ==
  [][ (/\ DecideStep
       /\ rewritten
       /\ opc = "idle"
       /\ stable
       /\ read_rc = 0
       /\ ~NatConsistent) => target' # "none" ]_vars

====
